---- MODULE Spec2Model ----
(* Model of src/com/brigitte/jian/tensorflow/PreTextClassify.py: a straight-line *)
(* script that loads the IMDB reviews, builds the vocabulary maps, pads the      *)
(* reviews, trains a keras Sequential model and reports the results.             *)
EXTENDS Integers, Sequences, FiniteSets, TLC

(* ------------------------------------------------------------------ *)
(* Program constants                                                   *)
(* ------------------------------------------------------------------ *)
vocab_size == 10000
maxlen == 256
IndexShift == 3
ValSize == 10000
NumTrain == 25000
NumTest == 25000
Epochs == 40
\* model.fit is called without batch_size; keras then uses 32
DefaultBatchSize == 32
\* the mini-batch size the comment above model.fit announces
DocBatchSize == 512

(* ------------------------------------------------------------------ *)
(* Bounds of the model                                                 *)
(* ------------------------------------------------------------------ *)
MaxWords == 2
MaxRawId == 2
MaxText == 2
MaxRows == 2
MaxOver == 3
MaxVariant == 2

Min(a, b) == IF a < b THEN a ELSE b
Max(a, b) == IF a > b THEN a ELSE b

(* ------------------------------------------------------------------ *)
(* Strings are sequences of one-character strings                      *)
(* ------------------------------------------------------------------ *)
PAD == <<"<", "P", "A", "D", ">">>
START == <<"<", "S", "T", "A", "R", "T", ">">>
UNK == <<"<", "U", "N", "K", ">">>
UNUSED == <<"<", "U", "N", "U", "S", "E", "D", ">">>
QUESTION == <<"?">>
SPACE == <<" ">>

(* ------------------------------------------------------------------ *)
(* Python dict: insertion-ordered sequence of <<key, value>> pairs     *)
(* with unique keys                                                    *)
(* ------------------------------------------------------------------ *)
DictHas(d, k) == \E i \in 1..Len(d) : d[i][1] = k

DictGet(d, k, default) ==
    IF DictHas(d, k) THEN d[CHOOSE i \in 1..Len(d) : d[i][1] = k][2] ELSE default

DictSet(d, k, v) ==
    IF DictHas(d, k)
    THEN [i \in 1..Len(d) |-> IF d[i][1] = k THEN <<k, v>> ELSE d[i]]
    ELSE Append(d, <<k, v>>)

RECURSIVE DictFromPairs(_)
\* dict(pairs): a later pair with the same key overwrites the earlier one
DictFromPairs(pairs) ==
    IF pairs = <<>> THEN <<>>
    ELSE LET n == Len(pairs)
         IN DictSet(DictFromPairs(SubSeq(pairs, 1, n - 1)), pairs[n][1], pairs[n][2])

DictKeys(d) == {d[i][1] : i \in 1..Len(d)}
DictValues(d) == {d[i][2] : i \in 1..Len(d)}

(* ------------------------------------------------------------------ *)
(* Vocabulary mapping (lines 32-46)                                    *)
(* ------------------------------------------------------------------ *)
\* a shift that leaves raw ID 1 on a control ID
ShiftedIndexShort(d) == [i \in 1..Len(d) |-> <<d[i][1], d[i][2] + (IndexShift - 1)>>]

\* {k: (v + 3) for k, v in word_index.items()}
ShiftedIndex(d) == [i \in 1..Len(d) |-> <<d[i][1], d[i][2] + IndexShift>>]

\* word_index["<PAD>"] = 0 ... word_index["<UNUSED>"] = 3
WithControlTokens(d) ==
    DictSet(DictSet(DictSet(DictSet(d, PAD, 0), START, 1), UNK, 2), UNUSED, 3)

\* dict([(value, key) for (key, value) in word_index.items()])
ReversedIndex(d) == DictFromPairs([i \in 1..Len(d) |-> <<d[i][2], d[i][1]>>])

RECURSIVE Join(_, _)
\* sep.join(words), computed by halves
Join(words, sep) ==
    IF words = <<>> THEN <<>>
    ELSE IF Len(words) = 1 THEN words[1]
    ELSE LET h == Len(words) \div 2
         IN Join(SubSeq(words, 1, h), sep) \o sep \o Join(SubSeq(words, h + 1, Len(words)), sep)

\* a lookup that has no default for an absent ID: the words found, absent IDs dropped
RECURSIVE KnownWords(_, _)
KnownWords(rev, text) ==
    IF text = <<>> THEN <<>>
    ELSE IF Len(text) = 1
         THEN IF DictHas(rev, text[1]) THEN <<DictGet(rev, text[1], QUESTION)>> ELSE <<>>
         ELSE LET h == Len(text) \div 2
              IN KnownWords(rev, SubSeq(text, 1, h)) \o KnownWords(rev, SubSeq(text, h + 1, Len(text)))

decode_review_strict(rev, text) == Join(KnownWords(rev, text), SPACE)

\* ' '.join([reverse_word_index.get(i, '?') for i in text])
decode_review(rev, text) ==
    Join([i \in 1..Len(text) |-> DictGet(rev, text[i], QUESTION)], SPACE)

(* ------------------------------------------------------------------ *)
(* Sequence normalization (lines 68-71)                                *)
(* ------------------------------------------------------------------ *)
\* a truncation that keeps the head of the sequence
TruncateHead(s, n) == IF Len(s) > n THEN SubSeq(s, 1, n) ELSE s

\* truncating is not passed, so keras uses 'pre': s[-maxlen:]
Truncate(s, n) == IF Len(s) > n THEN SubSeq(s, Len(s) - n + 1, Len(s)) ELSE s

\* padding at the front of the row
PadRowPre(s, value, n) == [i \in 1..(n - Len(s)) |-> value] \o s

\* padding='post': the row is filled with value, then trunc is written at its start
PadRow(s, value, n) == s \o [i \in 1..(n - Len(s)) |-> value]

pad_sequences(sequences, value, n) ==
    [r \in 1..Len(sequences) |-> PadRow(Truncate(sequences[r], n), value, n)]

(* ------------------------------------------------------------------ *)
(* numpy basic slices are views: a row range of their base array       *)
(* ------------------------------------------------------------------ *)
\* base[start:stop] on an array of n rows (bounds are clamped to n)
Slice(n, start, stop) == [lo |-> Min(start, n), hi |-> Max(Min(stop, n), Min(start, n))]

ViewLen(v) == v.hi - v.lo
ViewRows(v) == v.lo .. (v.hi - 1)
NoView == [lo |-> 0, hi |-> 0]

\* number of mini-batches keras draws from n rows with batch size b
StepsPerEpoch(n, b) == (n + b - 1) \div b

(* ------------------------------------------------------------------ *)
(* Inputs                                                              *)
(* ------------------------------------------------------------------ *)
WordPool == << <<"t", "h", "e">>, <<"a", "n", "d">>, <<"a">>, <<"o", "f">>, <<"i", "t", "'", "s">> >>
Word(i) == IF i <= Len(WordPool) THEN WordPool[i] ELSE [j \in 1..i |-> "z"]
Words == {Word(i) : i \in 1..MaxWords}
RawIds == 1..MaxRawId

\* what imdb.get_word_index() can return: distinct words, distinct IDs >= 1
RawIndexes ==
    {d \in UNION {[1..k -> Words \X RawIds] : k \in 0..Min(MaxWords, MaxRawId)} :
        \A i, j \in 1..Len(d) : i # j => (d[i][1] # d[j][1] /\ d[i][2] # d[j][2])}

\* the whole pool in pool order, raw ID = frequency rank
RankedIndex == [i \in 1..Min(MaxWords, MaxRawId) |-> <<Word(i), i>>]

TokenIds == 0..(MaxRawId + IndexShift + 1)
Texts == UNION {[1..k -> TokenIds] : k \in 0..MaxText}

\* a review of the given length: <START>, then word IDs that differ by position
SampleSeq(len, a) ==
    [i \in 1..len |-> IF i = 1 THEN 1 ELSE 4 + ((a * i) % (vocab_size - 4))]

PadLens == <<0, 1, maxlen - 1, maxlen, maxlen + 1, maxlen + MaxOver>>

Rows(r, k, a) ==
    [j \in 1..r |-> SampleSeq(PadLens[((k + j - 2) % Len(PadLens)) + 1], a)]

Partitions == {Rows(r, k, a) : r \in 1..MaxRows, k \in 1..Len(PadLens), a \in 1..MaxVariant}

(* ------------------------------------------------------------------ *)
(* State                                                               *)
(* ------------------------------------------------------------------ *)
VARIABLES
    pc,                 \* the statement the script is about to execute
    failed_at,          \* the statement whose exception ended the process
    train_data,         \* tracked rows of the training reviews
    test_data,          \* tracked rows of the test reviews
    raw_train,          \* the rows load_data returned (before line 68 rebinds train_data)
    raw_test,           \* the rows load_data returned (before line 71 rebinds test_data)
    n_train,            \* len(train_data) == len(train_labels)
    n_test,             \* len(test_data) == len(test_labels)
    raw_word_index,     \* what get_word_index returned (before line 36 rebinds word_index)
    word_index,
    reverse_word_index,
    title,
    model,              \* layers and compile configuration
    params,             \* number of gradient updates applied to the trainable parameters
    x_val,
    partial_x_train,
    y_val,
    partial_y_train,
    epoch,              \* epochs completed by model.fit
    step,               \* mini-batches consumed in the running epoch
    batch,              \* the mini-batch of the last training step
    val_logs,           \* validation metrics of the running epoch
    history,            \* history.history
    result,
    test_reads,         \* uses of test_data, in program order
    console,
    charts,
    acc,
    val_acc,
    loss,
    val_loss,
    epochs

vars == <<pc, failed_at, train_data, test_data, raw_train, raw_test, n_train, n_test,
          raw_word_index, word_index, reverse_word_index, title, model, params, x_val, partial_x_train,
          y_val, partial_y_train, epoch, step, batch, val_logs, history, result,
          test_reads, console, charts, acc, val_acc, loss, val_loss, epochs>>

dataVars == <<train_data, test_data, raw_train, raw_test, n_train, n_test>>
vocabVars == <<raw_word_index, word_index, reverse_word_index>>
splitVars == <<x_val, partial_x_train, y_val, partial_y_train>>
fitVars == <<epoch, step, batch, val_logs, history>>
plotVars == <<acc, val_acc, loss, val_loss, epochs>>

PcOrder == <<"load", "explore", "get_word_index", "shift", "control", "reverse", "decode",
             "pad_train", "pad_test", "build", "compile", "split", "fit_train",
             "fit_validate", "fit_epoch_end", "evaluate", "read_history", "plot_loss",
             "plot_acc", "done">>

Pos(label) == CHOOSE i \in 1..Len(PcOrder) : PcOrder[i] = label

\* the statement the run has reached, also when it died there
Reached == IF pc = "aborted" THEN failed_at ELSE pc

Before(label) == Pos(Reached) < Pos(label)
Past(label) == Pos(Reached) > Pos(label)

EmptyHistory == [k \in {} |-> <<>>]
NoBatch == [x |-> NoView, lo |-> 0, hi |-> 0]
NoModel == [layers |-> <<>>, optimizer |-> "", loss |-> "", metrics |-> <<>>]

Metric(name, data, p) == [metric |-> name, data |-> data, params |-> p]
TestRead(line) == [line |-> line, epochs_done |-> epoch, updates |-> params]

Untrained ==
    /\ model = NoModel
    /\ params = 0
    /\ x_val = NoView
    /\ partial_x_train = NoView
    /\ y_val = NoView
    /\ partial_y_train = NoView
    /\ epoch = 0
    /\ step = 0
    /\ batch = NoBatch
    /\ val_logs = <<>>
    /\ history = EmptyHistory
    /\ result = <<>>
    /\ charts = <<>>
    /\ acc = <<>>
    /\ val_acc = <<>>
    /\ loss = <<>>
    /\ val_loss = <<>>
    /\ epochs = <<>>

\* the process has executed the imports and print(tf.__version__)
Init ==
    /\ pc = "load"
    /\ failed_at = ""
    /\ train_data = <<>>
    /\ test_data = <<>>
    /\ raw_train = <<>>
    /\ raw_test = <<>>
    /\ n_train = 0
    /\ n_test = 0
    /\ raw_word_index = <<>>
    /\ word_index = <<>>
    /\ reverse_word_index = <<>>
    /\ title = <<>>
    /\ test_reads = <<>>
    /\ console = <<"tf_version">>
    /\ Untrained

(* ------------------------------------------------------------------ *)
(* Statements of the script                                            *)
(* ------------------------------------------------------------------ *)
\* line 18: imdb.load_data(num_words=10000); the first review of each partition is tracked
LoadData ==
    /\ pc = "load"
    /\ \E a \in 1..MaxVariant :
        /\ train_data' = Rows(1, Len(PadLens), a)
        /\ test_data' = Rows(1, 2, a)
    /\ raw_train' = train_data'
    /\ raw_test' = test_data'
    /\ n_train' = NumTrain
    /\ n_test' = NumTest
    /\ pc' = "explore"
    /\ UNCHANGED <<failed_at, vocabVars, title, model, params, splitVars, fitVars, result,
                   test_reads, console, charts, plotVars>>

\* lines 23-26: print the sizes, print(test_data[0])
ExploreData ==
    /\ pc = "explore"
    /\ console' = console \o <<"entries", "test_data[0]">>
    /\ test_reads' = Append(test_reads, TestRead(26))
    /\ pc' = "get_word_index"
    /\ UNCHANGED <<failed_at, dataVars, vocabVars, title, model, params, splitVars, fitVars,
                   result, charts, plotVars>>

\* line 32: imdb.get_word_index()
GetWordIndex ==
    /\ pc = "get_word_index"
    /\ word_index' = RankedIndex
    /\ raw_word_index' = word_index'
    /\ pc' = "shift"
    /\ UNCHANGED <<failed_at, dataVars, reverse_word_index, title, model, params, splitVars,
                   fitVars, result, test_reads, console, charts, plotVars>>

\* line 36
ShiftIndex ==
    /\ pc = "shift"
    /\ word_index' = ShiftedIndex(word_index)
    /\ pc' = "control"
    /\ UNCHANGED <<failed_at, dataVars, raw_word_index, reverse_word_index, title, model, params, splitVars,
                   fitVars, result, test_reads, console, charts, plotVars>>

\* lines 37-40
ReserveControl ==
    /\ pc = "control"
    /\ word_index' = WithControlTokens(word_index)
    /\ pc' = "reverse"
    /\ UNCHANGED <<failed_at, dataVars, raw_word_index, reverse_word_index, title, model, params, splitVars,
                   fitVars, result, test_reads, console, charts, plotVars>>

\* line 42
BuildReverse ==
    /\ pc = "reverse"
    /\ reverse_word_index' = ReversedIndex(word_index)
    /\ pc' = "decode"
    /\ UNCHANGED <<failed_at, dataVars, raw_word_index, word_index, title, model, params, splitVars,
                   fitVars, result, test_reads, console, charts, plotVars>>

\* lines 50-52: title = decode_review(train_data[0]); print(title)
DecodeTitle ==
    /\ pc = "decode"
    /\ title' = decode_review(reverse_word_index, train_data[1])
    /\ console' = Append(console, "title")
    /\ pc' = "pad_train"
    /\ UNCHANGED <<failed_at, dataVars, vocabVars, model, params, splitVars, fitVars,
                   result, test_reads, charts, plotVars>>

\* lines 68-69
PadTrain ==
    /\ pc = "pad_train"
    /\ train_data' = pad_sequences(train_data, DictGet(word_index, PAD, -1), maxlen)
    /\ pc' = "pad_test"
    /\ UNCHANGED <<failed_at, test_data, raw_train, raw_test, n_train, n_test, vocabVars,
                   title, model, params, splitVars, fitVars, result, test_reads, console,
                   charts, plotVars>>

\* lines 71-78: pad the test reviews, print the lengths and the first padded review
PadTest ==
    /\ pc = "pad_test"
    /\ test_data' = pad_sequences(test_data, DictGet(word_index, PAD, -1), maxlen)
    /\ test_reads' = Append(test_reads, TestRead(71))
    /\ console' = console \o <<"lengths", "train_data[0]">>
    /\ pc' = "build"
    /\ UNCHANGED <<failed_at, train_data, raw_train, raw_test, n_train, n_test, vocabVars,
                   title, model, params, splitVars, fitVars, result, charts, plotVars>>

\* lines 98-103: the four layers; the parameters get their initial values
BuildModel ==
    /\ pc = "build"
    /\ model' = [NoModel EXCEPT !.layers = <<"Embedding", "GlobalAveragePooling1D",
                                            "Dense_relu", "Dense_sigmoid">>]
    /\ params' = 0
    /\ console' = Append(console, "summary")
    /\ pc' = "compile"
    /\ UNCHANGED <<failed_at, dataVars, vocabVars, title, splitVars, fitVars, result,
                   test_reads, charts, plotVars>>

\* line 116
CompileModel ==
    /\ pc = "compile"
    /\ model' = [model EXCEPT !.optimizer = "adam", !.loss = "binary_crossentropy",
                              !.metrics = <<"accuracy">>]
    /\ pc' = "split"
    /\ UNCHANGED <<failed_at, dataVars, vocabVars, title, params, splitVars, fitVars,
                   result, test_reads, console, charts, plotVars>>

\* a split whose training rows start one row early
SplitOverlap ==
    /\ pc = "split"
    /\ x_val' = Slice(n_train, 0, ValSize)
    /\ partial_x_train' = Slice(n_train, ValSize - 1, n_train)
    /\ y_val' = Slice(n_train, 0, ValSize)
    /\ partial_y_train' = Slice(n_train, ValSize - 1, n_train)
    /\ pc' = "fit_train"
    /\ UNCHANGED <<failed_at, dataVars, vocabVars, title, model, params, fitVars, result,
                   test_reads, console, charts, plotVars>>

\* lines 122-128: train_data[:10000], train_data[10000:], and the same for the labels
SplitValidation ==
    /\ pc = "split"
    /\ x_val' = Slice(n_train, 0, ValSize)
    /\ partial_x_train' = Slice(n_train, ValSize, n_train)
    /\ y_val' = Slice(n_train, 0, ValSize)
    /\ partial_y_train' = Slice(n_train, ValSize, n_train)
    /\ pc' = "fit_train"
    /\ UNCHANGED <<failed_at, dataVars, vocabVars, title, model, params, fitVars, result,
                   test_reads, console, charts, plotVars>>

\* history.setdefault(k, []).append(v) for every (k, v) of the epoch's logs
HistoryAppend(h, logs) ==
    [k \in DOMAIN h \cup {logs[i][1] : i \in 1..Len(logs)} |->
        LET old == IF k \in DOMAIN h THEN h[k] ELSE <<>>
        IN IF \E i \in 1..Len(logs) : logs[i][1] = k
           THEN Append(old, logs[CHOOSE i \in 1..Len(logs) : logs[i][1] = k][2])
           ELSE old]

\* line 134, one mini-batch: rows [lo, hi) of the epoch's ordering of partial_x_train
TrainStep ==
    /\ pc = "fit_train"
    /\ step < StepsPerEpoch(ViewLen(partial_x_train), DefaultBatchSize)
    /\ batch' = [x |-> partial_x_train,
                 lo |-> step * DefaultBatchSize,
                 hi |-> Min((step + 1) * DefaultBatchSize, ViewLen(partial_x_train))]
    /\ params' = params + 1
    /\ step' = step + 1
    /\ UNCHANGED <<pc, failed_at, dataVars, vocabVars, title, model, splitVars, epoch,
                   val_logs, history, result, test_reads, console, charts, plotVars>>

\* a validation pass that also fits the validation rows
ValidationEvalFits ==
    /\ pc = "fit_train"
    /\ step = StepsPerEpoch(ViewLen(partial_x_train), DefaultBatchSize)
    /\ val_logs' = << <<"val_loss", Metric("loss", x_val, params)>>,
                      <<"val_accuracy", Metric("accuracy", x_val, params)>> >>
    /\ batch' = [x |-> x_val, lo |-> 0, hi |-> Min(DefaultBatchSize, ViewLen(x_val))]
    /\ params' = params + 1
    /\ pc' = "fit_epoch_end"
    /\ UNCHANGED <<failed_at, dataVars, vocabVars, title, model, splitVars, epoch, step,
                   history, result, test_reads, console, charts, plotVars>>

\* line 134, end of an epoch: loss and accuracy on validation_data=(x_val, y_val)
ValidationEval ==
    /\ pc = "fit_train"
    /\ step = StepsPerEpoch(ViewLen(partial_x_train), DefaultBatchSize)
    /\ val_logs' = << <<"val_loss", Metric("loss", x_val, params)>>,
                      <<"val_accuracy", Metric("accuracy", x_val, params)>> >>
    /\ pc' = "fit_epoch_end"
    /\ UNCHANGED <<failed_at, dataVars, vocabVars, title, model, params, splitVars, epoch,
                   step, batch, history, result, test_reads, console, charts, plotVars>>

\* an epoch end that records the training metrics only
EpochEndTrainOnly ==
    /\ pc = "fit_epoch_end"
    /\ history' = HistoryAppend(history,
                     << <<"loss", Metric("loss", partial_x_train, params)>>,
                        <<"accuracy", Metric("accuracy", partial_x_train, params)>> >>)
    /\ console' = Append(console, "epoch")
    /\ epoch' = epoch + 1
    /\ step' = 0
    /\ val_logs' = <<>>
    /\ pc' = IF epoch + 1 = Epochs THEN "evaluate" ELSE "fit_train"
    /\ UNCHANGED <<failed_at, dataVars, vocabVars, title, model, params, splitVars, batch,
                   result, test_reads, charts, plotVars>>

\* line 134, end of an epoch: the History callback appends the epoch's logs (verbose=1
\* prints them); after epochs=40 epochs fit returns
EpochEnd ==
    /\ pc = "fit_epoch_end"
    /\ history' = HistoryAppend(history,
                     << <<"loss", Metric("loss", partial_x_train, params)>>,
                        <<"accuracy", Metric("accuracy", partial_x_train, params)>> >>
                     \o val_logs)
    /\ console' = Append(console, "epoch")
    /\ epoch' = epoch + 1
    /\ step' = 0
    /\ val_logs' = <<>>
    /\ pc' = IF epoch + 1 = Epochs THEN "evaluate" ELSE "fit_train"
    /\ UNCHANGED <<failed_at, dataVars, vocabVars, title, model, params, splitVars, batch,
                   result, test_reads, charts, plotVars>>

\* lines 139-141: model.evaluate(test_data, test_labels); print(result)
Evaluate ==
    /\ pc = "evaluate"
    /\ result' = <<Metric("loss", "test_data", params), Metric("accuracy", "test_data", params)>>
    /\ test_reads' = Append(test_reads, TestRead(139))
    /\ console' = Append(console, "result")
    /\ pc' = "read_history"
    /\ UNCHANGED <<failed_at, dataVars, vocabVars, title, model, params, splitVars, fitVars,
                   charts, plotVars>>

\* line 160: range(1, len(acc) + 1)
EpochAxis(series) == [i \in 1..Len(series) |-> i]

\* lines 145-160
ReadHistory ==
    /\ pc = "read_history"
    /\ console' = Append(console, "keys")
    /\ acc' = history["accuracy"]
    /\ val_acc' = history["val_accuracy"]
    /\ loss' = history["loss"]
    /\ val_loss' = history["val_loss"]
    /\ epochs' = EpochAxis(history["accuracy"])
    /\ pc' = "plot_loss"
    /\ UNCHANGED <<failed_at, dataVars, vocabVars, title, model, params, splitVars, fitVars,
                   result, test_reads, charts>>

\* lines 163-170
PlotLoss ==
    /\ pc = "plot_loss"
    /\ charts' = Append(charts, [title |-> "Training and validation loss",
                                 x |-> epochs, series |-> <<loss, val_loss>>])
    /\ pc' = "plot_acc"
    /\ UNCHANGED <<failed_at, dataVars, vocabVars, title, model, params, splitVars, fitVars,
                   result, test_reads, console, plotVars>>

\* lines 173-182
PlotAcc ==
    /\ pc = "plot_acc"
    /\ charts' = Append(charts, [title |-> "Training and validation accuracy",
                                 x |-> epochs, series |-> <<acc, val_acc>>])
    /\ pc' = "done"
    /\ UNCHANGED <<failed_at, dataVars, vocabVars, title, model, params, splitVars, fitVars,
                   result, test_reads, console, plotVars>>

\* the statements whose collaborator can raise: the two downloads, fit, evaluate, plt.show
FailStages == {"load", "get_word_index", "fit_train", "evaluate", "plot_loss", "plot_acc"}

\* a failure that is caught and the statement run again
FailRetry ==
    /\ pc \in FailStages
    /\ failed_at = ""
    /\ failed_at' = pc
    /\ UNCHANGED <<pc, dataVars, vocabVars, title, model, params, splitVars, fitVars, result,
                   test_reads, console, charts, plotVars>>

\* no try/except anywhere: an exception ends the process at the statement that raised it
Fail ==
    /\ pc \in FailStages
    /\ failed_at' = pc
    /\ pc' = "aborted"
    /\ UNCHANGED <<dataVars, vocabVars, title, model, params, splitVars, fitVars, result,
                   test_reads, console, charts, plotVars>>

Next ==
    \/ LoadData
    \/ ExploreData
    \/ GetWordIndex
    \/ ShiftIndex
    \/ ReserveControl
    \/ BuildReverse
    \/ DecodeTitle
    \/ PadTrain
    \/ PadTest
    \/ BuildModel
    \/ CompileModel
    \/ SplitValidation
    \/ TrainStep
    \/ ValidationEval
    \/ EpochEnd
    \/ Evaluate
    \/ ReadHistory
    \/ PlotLoss
    \/ PlotAcc
    \/ Fail

Spec == Init /\ [][Next]_vars

(* ------------------------------------------------------------------ *)
(* The vocabulary statements on every small raw index and review       *)
(* ------------------------------------------------------------------ *)
ExploredReads == <<[line |-> 26, epochs_done |-> 0, updates |-> 0]>>

\* the state before line 36 for a raw index and a first training review
InitVocab ==
    /\ pc = "shift"
    /\ failed_at = ""
    /\ \E text \in Texts : train_data = <<text>>
    /\ test_data = Rows(1, 2, 1)
    /\ raw_train = train_data
    /\ raw_test = test_data
    /\ n_train = NumTrain
    /\ n_test = NumTest
    /\ raw_word_index \in RawIndexes
    /\ word_index = raw_word_index
    /\ reverse_word_index = <<>>
    /\ title = <<>>
    /\ test_reads = ExploredReads
    /\ console = <<"tf_version", "entries", "test_data[0]">>
    /\ Untrained

NextVocab ==
    \/ ShiftIndex
    \/ ReserveControl
    \/ BuildReverse
    \/ DecodeTitle

SpecVocab == InitVocab /\ [][NextVocab]_vars

(* ------------------------------------------------------------------ *)
(* The padding statements on every small pair of partitions            *)
(* ------------------------------------------------------------------ *)
\* the state before line 68 for sampled train and test rows
InitPad ==
    /\ pc = "pad_train"
    /\ failed_at = ""
    /\ train_data \in Partitions
    /\ test_data \in Partitions
    /\ raw_train = train_data
    /\ raw_test = test_data
    /\ n_train = NumTrain
    /\ n_test = NumTest
    /\ raw_word_index = RankedIndex
    /\ word_index = WithControlTokens(ShiftedIndex(raw_word_index))
    /\ reverse_word_index = ReversedIndex(word_index)
    /\ title = decode_review(reverse_word_index, train_data[1])
    /\ test_reads = ExploredReads
    /\ console = <<"tf_version", "entries", "test_data[0]", "title">>
    /\ Untrained

NextPad ==
    \/ PadTrain
    \/ PadTest

SpecPad == InitPad /\ [][NextPad]_vars

(* ------------------------------------------------------------------ *)
(* Helpers of the properties                                           *)
(* ------------------------------------------------------------------ *)
\* str.split(' '): the pieces between consecutive spaces
Split(str) ==
    LET sp == {i \in 1..Len(str) : str[i] = " "}
        n == Cardinality(sp)
        Cut(k) == IF k = 0 THEN 0
                  ELSE IF k = n + 1 THEN Len(str) + 1
                  ELSE CHOOSE i \in sp : Cardinality({j \in sp : j < i}) = k - 1
    IN [k \in 1..(n + 1) |-> SubSeq(str, Cut(k - 1) + 1, Cut(k) - 1)]

\* [word_index[w] for w in words]
Encode(words) == [i \in 1..Len(words) |-> DictGet(word_index, words[i], -1)]

Zeros(n) == [i \in 1..n |-> 0]
Range(f) == {f[i] : i \in DOMAIN f}
ControlWords == {PAD, START, UNK, UNUSED}
HistoryKeys == {"loss", "accuracy", "val_loss", "val_accuracy"}
TrainPadded == Past("pad_train")
TestPadded == Past("pad_test")

KeepsHead(raw, padded) ==
    \A r \in 1..Len(raw) :
        Len(raw[r]) > maxlen => padded[r] = SubSeq(raw[r], 1, maxlen)

KeepsTail(raw, padded) ==
    \A r \in 1..Len(raw) :
        Len(raw[r]) > maxlen =>
            /\ Len(padded[r]) = maxlen
            /\ \A i \in 1..maxlen : padded[r][i] = raw[r][Len(raw[r]) - maxlen + i]

PaddedAtEnd(raw, padded) ==
    /\ Len(padded) = Len(raw)
    /\ \A r \in 1..Len(raw) :
        /\ Len(padded[r]) = maxlen
        /\ Len(raw[r]) < maxlen => padded[r] = raw[r] \o Zeros(maxlen - Len(raw[r]))

(* ------------------------------------------------------------------ *)
(* C1 (as stated): a raw sequence longer than 256 tokens is normalized *)
(* to its first 256 tokens, in order.                                  *)
(* ------------------------------------------------------------------ *)
C1_KeepsFirstTokens ==
    /\ TrainPadded => KeepsHead(raw_train, train_data)
    /\ TestPadded => KeepsHead(raw_test, test_data)

(* ------------------------------------------------------------------ *)
(* C1 (amended): a raw sequence longer than 256 tokens is normalized   *)
(* to its last 256 tokens, in order; nothing of the original positions *)
(* before len(s) - 256 remains.                                        *)
(* ------------------------------------------------------------------ *)
C1_KeepsLastTokens ==
    /\ TrainPadded => KeepsTail(raw_train, train_data)
    /\ TestPadded => KeepsTail(raw_test, test_data)

C1_LongRowsPadded ==
    /\ TestPadded
    /\ \E r \in 1..Len(raw_train) : Len(raw_train[r]) > maxlen + 1
    /\ \E r \in 1..Len(raw_test) : Len(raw_test[r]) > maxlen

(* ------------------------------------------------------------------ *)
(* C2 (as stated): training makes exactly 40 passes over the 15,000    *)
(* partial-train rows, each pass being ceil(15000 / 512) = 30 update   *)
(* steps of at most 512 rows.                                          *)
(* ------------------------------------------------------------------ *)
C2_BatchesOf512 ==
    /\ pc = "fit_epoch_end" =>
        /\ ViewLen(partial_x_train) = NumTrain - ValSize
        /\ step = StepsPerEpoch(NumTrain - ValSize, DocBatchSize)
    /\ batch.hi - batch.lo <= DocBatchSize
    /\ Past("fit_epoch_end") => epoch = Epochs

(* ------------------------------------------------------------------ *)
(* C3: every normalized sequence has length exactly 256 and as many    *)
(* sequences come out as went in; a raw sequence shorter than 256 is   *)
(* kept as a prefix and followed by pad ID 0 only; train and test rows *)
(* are normalized with the same parameters (equal raw rows give equal  *)
(* normalized rows).                                                   *)
(* ------------------------------------------------------------------ *)
C3_FixedLengthPostPadding ==
    /\ DictGet(word_index, PAD, -1) = 0
    /\ TrainPadded => PaddedAtEnd(raw_train, train_data)
    /\ TestPadded => PaddedAtEnd(raw_test, test_data)
    /\ TestPadded =>
        \A i \in 1..Len(raw_train) : \A j \in 1..Len(raw_test) :
            raw_train[i] = raw_test[j] => train_data[i] = test_data[j]

C3_ShortRowsPadded ==
    /\ TestPadded
    /\ \E r \in 1..Len(raw_train) : Len(raw_train[r]) \in 1..(maxlen - 1)
    /\ \E r \in 1..Len(raw_test) : Len(raw_test[r]) = maxlen - 1
    /\ \E i \in 1..Len(raw_train) : \E j \in 1..Len(raw_test) : raw_train[i] = raw_test[j]

(* ------------------------------------------------------------------ *)
(* C4: validation features and labels are rows 0..9999 of the training *)
(* partition, the optimized subset is rows 10000..24999, the two are   *)
(* disjoint and together cover all 25,000 rows, and features and       *)
(* labels of a subset are the same rows in the same order.             *)
(* ------------------------------------------------------------------ *)
C4_SplitDisjointExhaustive ==
    /\ Past("split") =>
        /\ x_val = [lo |-> 0, hi |-> ValSize]
        /\ partial_x_train = [lo |-> ValSize, hi |-> NumTrain]
        /\ y_val = x_val
        /\ partial_y_train = partial_x_train
        /\ ViewLen(x_val) + ViewLen(partial_x_train) = n_train
    /\ (pc = "fit_train" /\ epoch = 0 /\ step = 0) =>
        /\ ViewRows(x_val) = 0..9999
        /\ ViewRows(partial_x_train) = 10000..24999
        /\ \A i \in 0..(n_train - 1) : (i \in ViewRows(x_val)) # (i \in ViewRows(partial_x_train))

C4_SplitDone ==
    /\ pc = "fit_train"
    /\ epoch = 0
    /\ step = 0
    /\ n_train = 25000
    /\ ViewLen(x_val) > 0
    /\ ViewLen(partial_x_train) > 0

(* ------------------------------------------------------------------ *)
(* C5 (as stated): the test partition is read exactly once, and that   *)
(* read happens after all 40 training epochs; no read precedes a       *)
(* parameter update and no test row reaches the training step.         *)
(* ------------------------------------------------------------------ *)
C5_TestReadOnceAfterTraining ==
    /\ Len(test_reads) <= 1
    /\ \A i \in 1..Len(test_reads) : test_reads[i].epochs_done = Epochs
    /\ pc = "done" => Len(test_reads) = 1
    /\ batch.x \in {NoView, partial_x_train}

(* ------------------------------------------------------------------ *)
(* C6: after k completed epochs the history holds k entries in each of *)
(* its four series (loss, accuracy, val_loss, val_accuracy); when      *)
(* training has ended each series has exactly 40 entries, and the      *)
(* plotted epoch axis is 1..40, as long as every plotted series.       *)
(* ------------------------------------------------------------------ *)
C6_HistoryFourSeriesOfForty ==
    /\ epoch = 0 => DOMAIN history = {}
    /\ epoch > 0 => DOMAIN history = HistoryKeys
    /\ \A k \in DOMAIN history : Len(history[k]) = epoch
    /\ Past("fit_epoch_end") => epoch = 40
    /\ Past("read_history") =>
        /\ epochs = [i \in 1..40 |-> i]
        /\ \A series \in {loss, val_loss, acc, val_acc} : Len(series) = Len(epochs)
        /\ loss = history["loss"] /\ val_loss = history["val_loss"]
        /\ acc = history["accuracy"] /\ val_acc = history["val_accuracy"]
    /\ \A c \in 1..Len(charts) :
        /\ charts[c].x = [i \in 1..40 |-> i]
        /\ \A j \in 1..Len(charts[c].series) : Len(charts[c].series[j]) = Len(charts[c].x)

C6_BothChartsDrawn ==
    /\ pc = "done"
    /\ Len(charts) = 2
    /\ epoch = 40

(* ------------------------------------------------------------------ *)
(* C7: the vocabulary map and its inverse are mutually inverse         *)
(* bijections: IDs 0..3 are exactly <PAD>, <START>, <UNK>, <UNUSED>;   *)
(* every real word has its raw ID + 3 (so at least 4); looking a       *)
(* word's ID up in the inverse map returns the word; decoding mapped   *)
(* IDs and re-encoding the words returns the IDs.                      *)
(* ------------------------------------------------------------------ *)
C7_VocabularyBijection ==
    Past("reverse") =>
        /\ DictGet(word_index, PAD, -1) = 0 /\ DictGet(reverse_word_index, 0, <<>>) = PAD
        /\ DictGet(word_index, START, -1) = 1 /\ DictGet(reverse_word_index, 1, <<>>) = START
        /\ DictGet(word_index, UNK, -1) = 2 /\ DictGet(reverse_word_index, 2, <<>>) = UNK
        /\ DictGet(word_index, UNUSED, -1) = 3 /\ DictGet(reverse_word_index, 3, <<>>) = UNUSED
        /\ DictKeys(word_index) = DictKeys(raw_word_index) \cup ControlWords
        /\ \A i \in 1..Len(raw_word_index) :
            /\ DictGet(word_index, raw_word_index[i][1], -1) = raw_word_index[i][2] + 3
            /\ DictGet(word_index, raw_word_index[i][1], -1) >= 4
        /\ \A w \in DictKeys(word_index) :
            DictGet(reverse_word_index, DictGet(word_index, w, -1), <<>>) = w
        /\ \A id \in DictKeys(reverse_word_index) :
            DictGet(word_index, DictGet(reverse_word_index, id, <<>>), -1) = id
        /\ Len(reverse_word_index) = Len(word_index)
        /\ (/\ Past("decode")
            /\ raw_train[1] # <<>>
            /\ \A i \in 1..Len(raw_train[1]) : DictHas(reverse_word_index, raw_train[1][i])) =>
                Encode(Split(title)) = raw_train[1]

C7_RealWordsMapped ==
    /\ Past("decode")
    /\ Len(raw_word_index) >= 2
    /\ \E i \in 1..Len(raw_word_index) : raw_word_index[i][2] = 1
    /\ Len(raw_train[1]) = MaxText
    /\ \A i \in 1..Len(raw_train[1]) : raw_train[1][i] \in DictValues(ShiftedIndex(raw_word_index))

(* ------------------------------------------------------------------ *)
(* C8: decode_review returns, for every ID sequence, the space-joined  *)
(* string whose i-th word is the inverse map's word for the i-th ID,   *)
(* or '?' when the ID is absent; it has as many words as the input has *)
(* IDs (the empty input gives the empty string), ID 1 reads <START>,   *)
(* and the call leaves both vocabulary maps as they were.              *)
(* ------------------------------------------------------------------ *)
C8_DecodeTotalAndPure ==
    /\ [](Past("decode") =>
            LET text == raw_train[1]
                pieces == Split(title)
            IN /\ text = <<>> => title = <<>>
               /\ text # <<>> =>
                    /\ Len(pieces) = Len(text)
                    /\ \A i \in 1..Len(text) :
                        /\ \/ \E j \in 1..Len(reverse_word_index) :
                                reverse_word_index[j] = <<text[i], pieces[i]>>
                           \/ /\ text[i] \notin DictKeys(reverse_word_index)
                              /\ pieces[i] = QUESTION
                        /\ text[i] = 1 => pieces[i] = START)
    /\ [][pc = "decode" =>
            /\ word_index' = word_index
            /\ reverse_word_index' = reverse_word_index]_vars

C8_DecodedWithUnknownId ==
    /\ Past("decode")
    /\ Len(raw_train[1]) = MaxText
    /\ raw_train[1][1] = 1
    /\ \E i \in 1..Len(raw_train[1]) : ~DictHas(reverse_word_index, raw_train[1][i])

(* ------------------------------------------------------------------ *)
(* C9 (as stated): a run that aborts at a failing stage never retries  *)
(* it, runs no later stage, and has produced no result of the run (no  *)
(* final test loss/accuracy, no chart).                                *)
(* ------------------------------------------------------------------ *)
C9_AbortedRunHasNoResult ==
    /\ failed_at # "" => pc = "aborted"
    /\ pc = "aborted" => (result = <<>> /\ charts = <<>> /\ "result" \notin Range(console))

(* ------------------------------------------------------------------ *)
(* C9 (amended): a run that aborts at a failing stage never retries    *)
(* it and runs no later stage, so it produces no output of the failed  *)
(* or of any later stage; what earlier stages already produced stays   *)
(* (the test loss/accuracy when a chart fails, the first chart when    *)
(* the second fails).                                                  *)
(* ------------------------------------------------------------------ *)
C9_AbortStopsAtFailedStage ==
    /\ [](/\ failed_at # "" => pc = "aborted"
          /\ pc = "aborted" =>
                /\ failed_at \in FailStages
                /\ (result # <<>>) <=> (Pos(failed_at) > Pos("evaluate"))
                /\ ("result" \in Range(console)) <=> (Pos(failed_at) > Pos("evaluate"))
                /\ Len(charts) = Cardinality({st \in {"plot_loss", "plot_acc"} :
                                                Pos(st) < Pos(failed_at)})
                /\ Pos(failed_at) <= Pos("fit_train") => epoch < Epochs)
    /\ [][pc = "aborted" => UNCHANGED vars]_vars

C9_AbortedAfterEvaluate ==
    /\ pc = "aborted"
    /\ failed_at = "plot_acc"
    /\ result # <<>>
    /\ Len(charts) = 1

(* ------------------------------------------------------------------ *)
(* C10: the trainable parameters change only in a training step on a   *)
(* mini-batch of partial-train rows; the per-epoch validation pass,    *)
(* the test evaluation and the reporting statements leave them as they *)
(* are, and no validation row is in a mini-batch.                      *)
(* ------------------------------------------------------------------ *)
C10_OnlyTrainStepsUpdateParams ==
    /\ [][params' # params =>
            /\ pc = "fit_train" /\ pc' = "fit_train"
            /\ step' = step + 1
            /\ params' = params + 1
            /\ batch'.x = partial_x_train
            /\ 0 <= batch'.lo /\ batch'.lo < batch'.hi /\ batch'.hi <= ViewLen(partial_x_train)
            /\ (partial_x_train.hi <= x_val.lo \/ x_val.hi <= partial_x_train.lo)]_vars
    /\ [][(pc' \in {"fit_epoch_end", "read_history", "plot_loss", "plot_acc", "done"}
           /\ pc' # pc) => params' = params]_vars

C10_TrainedAndEvaluated ==
    /\ pc = "read_history"
    /\ params = Epochs * StepsPerEpoch(ViewLen(partial_x_train), DefaultBatchSize)
    /\ params > 0
    /\ result # <<>>

====
